---------------------------- MODULE Spec2Model ----------------------------
(***************************************************************************)
(* A model of AskTheEUClient (src/asktheeu_client.py): one synchronous     *)
(* client that drives the portal's HTML forms over one HTTP session.       *)
(*                                                                         *)
(* The client is single-threaded and every operation is a sequence of      *)
(* blocking HTTP exchanges.  pc holds the position of the client's thread: *)
(* "idle" between calls, and otherwise the exchange it is about to make.   *)
(* A call action starts a public operation; every other action is one      *)
(* exchange: it issues the request, receives the portal's answer (any      *)
(* answer of the exchange's response set, or a transport error) and runs   *)
(* the handler's code up to its next request or to its return.  While a    *)
(* call is in progress no other call can start.                            *)
(*                                                                         *)
(* Text is modelled by TLA+ strings, and the Python string operations the  *)
(* code uses (in, split, isdigit, lower) are computed character by         *)
(* character.  etree.HTML is not modelled: a response carries the document *)
(* the parser makes of its body (its elements in document order), or the   *)
(* fact that parsing it fails.                                             *)
(***************************************************************************)
EXTENDS Naturals, Sequences, FiniteSets, TLC

VARIABLES
    authenticated,  \* self._authenticated
    pc,             \* position of the client's thread
    op,             \* the public operation in progress, or the last one finished
    args,           \* the arguments of that call
    token,          \* local variable token[0] of the running handler
    pro_result,     \* local variable pro_result of create_draft_request
    trace,          \* the requests issued so far by the call, in order
    resp,           \* the answer to the last request of the call
    outcome,        \* "none", "running", "returned" or "raised"
    result,         \* the value returned, or the message of the exception raised
    written,        \* the names of the files written by the call
    loginCalls,     \* how many times the call has entered login()
    loginRet,       \* what login() gave the call: "none", "true", "false", "raised"
    authAtCall      \* self._authenticated when the call started

vars == <<authenticated, pc, op, args, token, pro_result, trace, resp, outcome,
          result, written, loginCalls, loginRet, authAtCall>>

-----------------------------------------------------------------------------
(* Bounds of the model. *)

\* The longest document, in elements, a response carries.
MaxElems == 2

-----------------------------------------------------------------------------
(* Python strings. *)

\* sub in s
Contains(s, sub) ==
    \E i \in 1..(Len(s) + 1 - Len(sub)) : SubSeq(s, i, i + Len(sub) - 1) = sub

\* s.split(sep), for a non-empty sep
RECURSIVE Split(_, _)
Split(s, sep) ==
    IF Contains(s, sep)
    THEN LET i == CHOOSE i \in 1..(Len(s) + 1 - Len(sep)) :
                     /\ SubSeq(s, i, i + Len(sep) - 1) = sep
                     /\ \A j \in 1..(i - 1) : SubSeq(s, j, j + Len(sep) - 1) # sep
         IN  <<SubSeq(s, 1, i - 1)>> \o Split(SubSeq(s, i + Len(sep), Len(s)), sep)
    ELSE <<s>>

\* parts[-1]
Last(parts) == parts[Len(parts)]

Digits == "0123456789"

\* s.isdigit(), for ASCII text
IsDigit(s) ==
    /\ Len(s) > 0
    /\ \A i \in 1..Len(s) : Contains(Digits, SubSeq(s, i, i))

UpperCase == "ABCDEFGHIJKLMNOPQRSTUVWXYZ"
LowerCase == "abcdefghijklmnopqrstuvwxyz"

LowerChar(c) ==
    IF Contains(UpperCase, c)
    THEN LET i == CHOOSE i \in 1..Len(UpperCase) : SubSeq(UpperCase, i, i) = c
         IN  SubSeq(LowerCase, i, i)
    ELSE c

\* s.lower(), for ASCII text
RECURSIVE Lower(_)
Lower(s) ==
    IF Len(s) = 0 THEN "" ELSE LowerChar(SubSeq(s, 1, 1)) \o Lower(SubSeq(s, 2, Len(s)))

\* str(n) of a natural number
RECURSIVE Str(_)
Str(n) ==
    IF n < 10 THEN SubSeq(Digits, n + 1, n + 1)
    ELSE Str(n \div 10) \o SubSeq(Digits, (n % 10) + 1, (n % 10) + 1)

\* A value or None: None is the empty sequence, a value v is <<v>>.
None == <<>>
Some(v) == <<v>>

\* bool(x) of a string or None
Truthy(x) == x # None /\ x[1] # ""

\* any(flags)
PyAny(flags) == \E i \in 1..Len(flags) : flags[i]

-----------------------------------------------------------------------------
(* Documents and the XPath queries of the code. *)

\* An element: its tag, its attributes (a record holding exactly the attributes
\* the element has) and its text ("" when it has no text node).
Elem(tag, attrs, text) == [tag |-> tag, attrs |-> attrs, text |-> text]

HasAttr(e, a) == a \in DOMAIN e.attrs

\* The values of a sequence, filtered by a set of positions, in order.
RECURSIVE Pick(_, _, _)
Pick(seq, keep, i) ==
    IF i > Len(seq) THEN <<>>
    ELSE (IF i \in keep THEN <<seq[i]>> ELSE <<>>) \o Pick(seq, keep, i + 1)

\* //tag[@a="v"]/@out
XPathAttrEq(doc, tag, a, v, out) ==
    LET keep == {i \in 1..Len(doc) :
                    /\ doc[i].tag = tag
                    /\ HasAttr(doc[i], a) /\ doc[i].attrs[a] = v
                    /\ HasAttr(doc[i], out)}
    IN  Pick([i \in 1..Len(doc) |-> IF i \in keep THEN doc[i].attrs[out] ELSE ""], keep, 1)

\* //tag[contains(@a, "v")]/@out
XPathAttrContains(doc, tag, a, v, out) ==
    LET keep == {i \in 1..Len(doc) :
                    /\ doc[i].tag = tag
                    /\ HasAttr(doc[i], a) /\ Contains(doc[i].attrs[a], v)
                    /\ HasAttr(doc[i], out)}
    IN  Pick([i \in 1..Len(doc) |-> IF i \in keep THEN doc[i].attrs[out] ELSE ""], keep, 1)

\* //tag/text()
XPathText(doc, tag) ==
    LET keep == {i \in 1..Len(doc) : doc[i].tag = tag /\ doc[i].text # ""}
    IN  Pick([i \in 1..Len(doc) |-> doc[i].text], keep, 1)

\* The documents of at most MaxElems elements drawn from elems.
Docs(elems) == UNION {[1..n -> elems] : n \in 0..MaxElems}

\* What etree.HTML(r.text) makes of a body: a document, or a failure.
Parsed(doc) == [parsed |-> TRUE, elems |-> doc]
Unparseable == [parsed |-> FALSE, elems |-> <<>>]

\* The pages of at most MaxElems elements drawn from elems, and the page that
\* cannot be parsed.
Pages(elems) == {Unparseable} \cup {Parsed(d) : d \in Docs(elems)}

\* str(e) of the exception a body that cannot be parsed ends in.
ParseErrorMsg == "Document is empty"

\* str(e) of the exception a failed exchange raises.
NetErrorMsg == "Connection aborted."

-----------------------------------------------------------------------------
(* The portal. *)

Domain == "https://www.asktheeu.org"
Email == "user@example.org"
Password == "secret"

SignInUrl == Domain \o "/profile/sign_in"

Get(url) == [method |-> "GET", url |-> url]
Post(url, data) == [method |-> "POST", url |-> url, data |-> data]

NoAttrs == [a \in {} |-> ""]

\* An HTTP answer: r.status_code, r.url, r.text, the document of r.text, and
\* r.headers (a record holding exactly the headers the code reads and the answer
\* has).
Http(status, url, text, page) ==
    [kind |-> "http", status |-> status, url |-> url, text |-> text, page |-> page,
     headers |-> NoAttrs]

\* session.get / session.post raising instead of answering.
NetError == [kind |-> "neterror", msg |-> NetErrorMsg]

NoResponse == [kind |-> "none"]

\* The token inputs a sign-in page may hold.
SignInElems ==
    { Elem("input", [id |-> "signin_token", value |-> "s1"], ""),
      Elem("input", [id |-> "signin_token", value |-> "s2"], ""),
      Elem("input", [id |-> "signin_token"], ""),
      Elem("input", [name |-> "authenticity_token", value |-> "a1"], ""),
      Elem("input", [name |-> "user_signin[email]", value |-> "x"], "") }

\* login() does not look at the status of the sign-in page.
SignInResponses ==
    {NetError} \cup
    {Http(404, SignInUrl, "", Parsed(<<>>))} \cup
    {Http(200, SignInUrl, "", p) :
        p \in Pages(SignInElems)}

\* The bodies the portal may answer the sign-in POST with.
LoginTexts ==
    { "",
      "<p>Either your email or your password was not recognised</p>",
      "<button>Sign out</button>",
      "<a href=/profile/sign_out>Leave</a>",
      "<h1>Your profile</h1>",
      "<a href=/en/alaveteli_pro/dashboard>Home</a>",
      "<a href=/session/LogOut>Leave</a>" }

LoginPostResponses ==
    {NetError} \cup
    {Http(200, u, t, Unparseable) :
        u \in {SignInUrl, Domain \o "/"}, t \in LoginTexts}

-----------------------------------------------------------------------------
(* login() *)

\* LoginToken with the two selectors tried in the wrong order.
LoginTokenFallbackFirst(doc) ==
    LET fallback == XPathAttrEq(doc, "input", "name", "authenticity_token", "value")
    IN  IF fallback # <<>> THEN fallback
        ELSE XPathAttrEq(doc, "input", "id", "signin_token", "value")

\* The token login() takes from the sign-in page: the values of the input with
\* id signin_token, and only when there are none those of the input named
\* authenticity_token.
LoginToken(doc) ==
    LET primary == XPathAttrEq(doc, "input", "id", "signin_token", "value")
    IN  IF primary # <<>> THEN primary
        ELSE XPathAttrEq(doc, "input", "name", "authenticity_token", "value")

\* The form login() posts.
LoginData(tok) ==
    [authenticity_token |-> "", email |-> Email, password |-> Password,
     token |-> tok, modal |-> "", commit |-> "Sign in"]

\* SuccessIndicators without the test of the final URL.
SuccessIndicatorsBodyOnly(r) ==
    << Contains(r.text, "Sign out"),
       Contains(r.text, "sign_out"),
       Contains(r.text, "Your profile"),
       Contains(r.text, "alaveteli_pro/dashboard"),
       Contains(Lower(r.text), "logout") >>

\* success_indicators of login().
SuccessIndicators(r) ==
    << Contains(r.text, "Sign out"),
       Contains(r.text, "sign_out"),
       Contains(r.text, "Your profile"),
       Contains(r.text, "alaveteli_pro/dashboard"),
       Contains(Lower(r.text), "logout"),
       r.url # SignInUrl >>

\* LoginDebug dumping the response of every failed login.
LoginDebugAlways == TRUE

\* The debug argument login() runs with: its own, the one create_draft_request
\* hands on, and the default (False) under send_request and list_requests.
LoginDebug ==
    IF op \in {"login", "create_draft_request", "create_foi_request"}
    THEN args.debug ELSE FALSE

\* FirstStep sending every draft through the Pro interface.
FirstStepProOnly(o, a) ==
    CASE o = "create_draft_request" -> "pro_get"
      [] o = "send_request" -> "sendpro_get"
      [] o = "list_requests" -> "list_get_pro"
      [] OTHER -> "idle"

\* The first exchange of an operation once the session is authenticated.
FirstStep(o, a) ==
    CASE o = "create_draft_request" -> "pro_get"
      [] o = "send_request" -> IF a.is_pro THEN "sendpro_get" ELSE "sendstd_get"
      [] o = "list_requests" -> "list_get_pro"
      [] OTHER -> "idle"

NotAuthenticated == [success |-> FALSE, error |-> "Not authenticated"]

\* The running handler returns val.
Return(val) == pc' = "idle" /\ outcome' = "returned" /\ result' = val

\* An exception escapes the running handler, and with it the call.
Raise(msg) == pc' = "idle" /\ outcome' = "raised" /\ result' = msg

Goto(label) == pc' = label /\ UNCHANGED <<outcome, result>>

\* The failure result of lines 236, 251, 270 and the like.
Failure(error) == [success |-> FALSE, error |-> error]

\* AfterLogin creating the draft without looking at the title and the body.
AfterLoginUnchecked(ret) ==
    IF ~ret THEN Return(Failure("Login failed")) ELSE Goto("pro_get")

\* create_foi_request, lines 758-772: login() returned ret to the helper.
AfterLogin(ret) ==
    IF ~ret THEN Return(Failure("Login failed"))
    ELSE IF ~Truthy(args.request_data.title) \/ ~Truthy(args.request_data.body)
    THEN Return(Failure("Title and body are required"))
    ELSE Goto("pro_get")

\* login() returns ret: to the caller of the client, to the helper, or into the
\* operation that called it, which goes on when ret is true and gives up when
\* it is false.
LoginReturn(ret) ==
    /\ loginRet' = IF ret THEN "true" ELSE "false"
    /\ IF op = "login" THEN Return(ret)
       ELSE IF op = "create_foi_request" THEN AfterLogin(ret)
       ELSE IF ret THEN Goto(FirstStep(op, args))
       ELSE Return(NotAuthenticated)

\* An exception escapes login(); no method of the client catches it, the helper
\* does (lines 774-775).
LoginRaise(msg) ==
    /\ loginRet' = "raised"
    /\ IF op = "create_foi_request" THEN Return(Failure(msg)) ELSE Raise(msg)

\* The locals of a handler that has not assigned them yet.
NoToken == ""
NoProResult == [success |-> FALSE, error |-> ""]

\* Begin with a session opened afresh by every call.
BeginFreshSession(o, a) ==
    /\ pc = "idle"
    /\ op' = o
    /\ args' = a
    /\ trace' = <<>>
    /\ resp' = NoResponse
    /\ written' = {}
    /\ authAtCall' = authenticated
    /\ token' = NoToken
    /\ pro_result' = NoProResult
    /\ authenticated' = FALSE

\* A call starts.
Begin(o, a) ==
    /\ pc = "idle"
    /\ op' = o
    /\ args' = a
    /\ trace' = <<>>
    /\ resp' = NoResponse
    /\ written' = {}
    /\ authAtCall' = authenticated
    /\ token' = NoToken
    /\ pro_result' = NoProResult
    /\ UNCHANGED authenticated

\* Login without the short-circuit of lines 61-64.
LoginAlwaysFetches ==
    \E debug \in BOOLEAN :
        /\ Begin("login", [debug |-> debug])
        /\ loginCalls' = 1
        /\ loginRet' = "none" /\ pc' = "login_get"
        /\ outcome' = "running" /\ result' = FALSE

\* login(debug), lines 61-64: an authenticated client returns at once.
Login ==
    \E debug \in BOOLEAN :
        /\ Begin("login", [debug |-> debug])
        /\ loginCalls' = 1
        /\ IF authenticated
           THEN loginRet' = "true" /\ Return(TRUE)
           ELSE loginRet' = "none" /\ pc' = "login_get"
                /\ outcome' = "running" /\ result' = FALSE

\* LoginGetPage posting an empty token when the page has none.
LoginGetPageEmptyToken ==
    /\ pc = "login_get"
    /\ \E r \in SignInResponses :
        /\ trace' = Append(trace, Get(SignInUrl))
        /\ resp' = r
        /\ IF r.kind = "neterror"
           THEN LoginRaise(r.msg) /\ UNCHANGED token
           ELSE IF ~r.page.parsed
           THEN LoginRaise(ParseErrorMsg) /\ UNCHANGED token
           ELSE LET found == LoginToken(r.page.elems)
                IN  /\ token' = IF found = <<>> THEN "" ELSE found[1]
                    /\ Goto("login_post")
                    /\ UNCHANGED loginRet
    /\ UNCHANGED <<authenticated, op, args, pro_result, written, loginCalls, authAtCall>>

\* login(), lines 70-89: fetch the sign-in page and take the token from it.
LoginGetPage ==
    /\ pc = "login_get"
    /\ \E r \in SignInResponses :
        /\ trace' = Append(trace, Get(SignInUrl))
        /\ resp' = r
        /\ IF r.kind = "neterror"
           THEN LoginRaise(r.msg) /\ UNCHANGED token
           ELSE IF ~r.page.parsed
           THEN LoginRaise(ParseErrorMsg) /\ UNCHANGED token
           ELSE LET found == LoginToken(r.page.elems)
                IN  IF found = <<>>
                    THEN LoginReturn(FALSE) /\ UNCHANGED token
                    ELSE token' = found[1] /\ Goto("login_post")
                         /\ UNCHANGED loginRet
    /\ UNCHANGED <<authenticated, op, args, pro_result, written, loginCalls, authAtCall>>

\* login(), lines 115-164: post the credentials and judge the answer.
LoginPost ==
    /\ pc = "login_post"
    /\ \E r \in LoginPostResponses :
        /\ trace' = Append(trace, Post(SignInUrl, LoginData(token)))
        /\ resp' = r
        /\ IF r.kind = "neterror"
           THEN LoginRaise(r.msg) /\ UNCHANGED <<authenticated, written>>
           ELSE LET ok == PyAny(SuccessIndicators(r))
                IN  /\ authenticated' = ok
                    /\ written' = IF LoginDebug /\ ~ok
                                  THEN written \cup {"login_response.html"}
                                  ELSE written
                    /\ LoginReturn(ok)
    /\ UNCHANGED <<op, args, token, pro_result, loginCalls, authAtCall>>

-----------------------------------------------------------------------------
(* create_draft_request() *)

ProNewUrl == Domain \o "/en/alaveteli_pro/info_requests/new"
ProDraftsUrl == Domain \o "/en/alaveteli_pro/draft_info_requests"
ProInfoRequests == "/en/alaveteli_pro/info_requests/"
StdNewUrl == Domain \o "/new"

PublicBodyId == "576"
Title == "Documents on gas infrastructure"
Body == "Dear Secretariat General, ..."
Embargo == ""

\* What the Pro form page may hold: a title and token carriers.
ProFormElems ==
    { Elem("title", NoAttrs, "Page Not Found"),
      Elem("title", NoAttrs, "Make a request"),
      Elem("input", [name |-> "authenticity_token", value |-> "a1"], ""),
      Elem("meta", [name |-> "csrf-token", content |-> "m1"], ""),
      Elem("input", [name |-> "csrf_token", value |-> "c1"], "") }

ProFormResponses ==
    {NetError} \cup
    {Http(404, ProNewUrl, "", Parsed(<<>>))} \cup
    {Http(200, ProNewUrl, "", p) :
        p \in Pages(ProFormElems)}

\* The links the answer to the Pro draft POST may hold.
ProLinkElems ==
    { Elem("a", [href |-> ProInfoRequests \o "12"], "Draft"),
      Elem("a", [href |-> ProInfoRequests \o "7"], "Draft"),
      Elem("a", [href |-> ProInfoRequests \o "new"], "New"),
      Elem("a", [href |-> "/en/request/56"], "Request") }

ProDraftResponses ==
    {NetError} \cup
    {Http(s, ProDraftsUrl, "", Parsed(<<>>)) : s \in {302, 500}} \cup
    {Http(200, ProDraftsUrl, "", p) :
        p \in Pages(ProLinkElems)}

\* What the standard form page may hold.
StdFormElems ==
    { Elem("input", [name |-> "authenticity_token", value |-> "a1"], ""),
      Elem("meta", [name |-> "csrf-token", content |-> "m1"], "") }

StdFormPages == Pages(StdFormElems)

StdFormResponses(url) ==
    {NetError} \cup
    {Http(404, url, "", Parsed(<<>>))} \cup
    {Http(200, url, "", p) : p \in StdFormPages}

\* The forms the answer to the standard draft POST may hold.
StdPreviewElems ==
    { Elem("form", [id |-> "preview_form", action |-> "/preview/88"], ""),
      Elem("form", [id |-> "preview_form", action |-> "/preview/"], ""),
      Elem("form", [id |-> "preview_form", action |-> "/new"], ""),
      Elem("form", [id |-> "search_form", action |-> "/preview/99"], "") }

StdPreviewUrl == Domain \o "/preview/78?step=1"

\* The URLs the standard draft POST may end at, after redirects.  The page of
\* an answer is read only when its URL names no draft.
StdFinalUrls ==
    { StdNewUrl,
      StdPreviewUrl,
      Domain \o "/preview/" }

StdDraftResponses ==
    {NetError} \cup
    {Http(500, StdNewUrl, "", Parsed(<<>>))} \cup
    {Http(302, u, "", Parsed(<<>>)) : u \in StdFinalUrls} \cup
    {Http(200, StdPreviewUrl, "", Parsed(<<>>))} \cup
    {Http(200, u, "", p) :
        u \in StdFinalUrls \ {StdPreviewUrl},
        p \in Pages(StdPreviewElems)}

\* The token of a form page, lines 254-262 and 374-382: the input named
\* authenticity_token, else the csrf-token meta tag, else any input whose name
\* contains "token".
FormToken(doc) ==
    LET primary == XPathAttrEq(doc, "input", "name", "authenticity_token", "value")
        meta == XPathAttrEq(doc, "meta", "name", "csrf-token", "content")
    IN  IF primary # <<>> THEN primary
        ELSE IF meta # <<>> THEN meta
        ELSE XPathAttrContains(doc, "input", "name", "token", "value")

\* Lines 247-248: the page title says the page was not found.
TitleSaysNotFound(doc) ==
    LET page_title == XPathText(doc, "title")
    IN  page_title # <<>> /\ Contains(Lower(page_title[1]), "not found")

\* WantsFallback falling back after every failure of the Pro interface.
WantsFallbackAlways(res) == TRUE

\* Line 206: the Pro failure that makes create_draft_request try the standard
\* interface.
WantsFallback(res) == Contains(res.error, "token") \/ Contains(res.error, "page")

\* FirstDraftId without the isdigit() test of line 320.
RECURSIVE FirstDraftIdAnySegment(_, _)
FirstDraftIdAnySegment(links, i) ==
    IF i > Len(links) THEN <<>>
    ELSE LET draft_id == Last(Split(links[i], "/"))
         IN  IF draft_id # "" THEN <<draft_id>> ELSE FirstDraftIdAnySegment(links, i + 1)

\* Lines 312-326: the draft id of the answer to the Pro draft POST, as a
\* sequence: the trailing segment of the first link to a Pro request that ends
\* in digits, or nothing.
RECURSIVE FirstDraftId(_, _)
FirstDraftId(links, i) ==
    IF i > Len(links) THEN <<>>
    ELSE LET draft_id == Last(Split(links[i], "/"))
         IN  IF IsDigit(draft_id) THEN <<draft_id>> ELSE FirstDraftId(links, i + 1)

ProDraftId(doc) ==
    FirstDraftId(XPathAttrContains(doc, "a", "href", ProInfoRequests, "href"), 1)

ProSuccess(draft_id) ==
    [success |-> TRUE, method |-> "pro_interface", draft_id |-> draft_id,
     draft_url |-> Domain \o ProInfoRequests \o draft_id]

StdSuccess(draft_id) ==
    [success |-> TRUE, method |-> "standard_interface", draft_id |-> draft_id,
     draft_url |-> Domain \o "/preview/" \o draft_id]

\* The form _try_pro_interface posts.
ProDraftData(tok) ==
    [utf8 |-> "check", authenticity_token |-> tok, public_body_id |-> PublicBodyId,
     title |-> Title, body |-> Body, embargo_duration |-> Embargo, preview |-> "true"]

\* The form _try_standard_interface posts.
StdDraftData(tok) ==
    [authenticity_token |-> tok, title |-> Title, body |-> Body,
     public_body_id |-> PublicBodyId, submitted_new_request |-> "1",
     preview |-> "1", commit |-> "Preview"]

\* Lines 428-465: what _try_standard_interface makes of the answer to its POST.
StdDraftResult(r) ==
    LET fail == Failure("Failed to create standard draft request. Status code: "
                        \o Str(r.status))
    IN  IF r.status \notin {200, 302} THEN fail
        ELSE LET from_url == IF Contains(r.url, "/preview/")
                             THEN Split(Last(Split(r.url, "/preview/")), "?")[1]
                             ELSE ""
             IN  IF from_url # "" THEN StdSuccess(from_url)
                 ELSE IF ~r.page.parsed THEN fail
                 ELSE LET form_action == XPathAttrEq(r.page.elems, "form", "id",
                                                     "preview_form", "action")
                      IN  IF form_action # <<>> /\ Contains(form_action[1], "/preview/")
                          THEN StdSuccess(Last(Split(form_action[1], "/preview/")))
                          ELSE fail

\* Lines 308-335: what _try_pro_interface makes of the answer to its POST.
ProDraftResult(r) ==
    LET fail == Failure("Failed to create Pro draft request. Status code: "
                        \o Str(r.status))
    IN  IF r.status # 200 THEN fail
        ELSE IF ~r.page.parsed
        THEN Failure("Error parsing Pro response: " \o ParseErrorMsg)
        ELSE LET found == ProDraftId(r.page.elems)
             IN  IF found # <<>> THEN ProSuccess(found[1]) ELSE fail

\* Lines 196-216: _try_pro_interface returned res.
ProReturn(res) ==
    /\ pro_result' = res
    /\ IF res.success THEN Return(res)
       ELSE IF WantsFallback(res) THEN Goto("std_get")
       ELSE Return(res)

\* StdReturn handing back the standard interface's own failure.
StdReturnOwnResult(res) == Return(res)

\* StdReturn ignoring a success of the standard interface.
StdReturnProResult(res) == Return(pro_result)

\* Lines 207-216: _try_standard_interface returned res.
StdReturn(res) == Return(IF res.success THEN res ELSE pro_result)

\* CreateDraftRequest without the authentication check of line 188.
CreateDraftRequestUnchecked ==
    \E debug \in BOOLEAN :
        /\ Begin("create_draft_request",
                 [public_body_id |-> PublicBodyId, title |-> Title, body |-> Body,
                  embargo_duration |-> Embargo, debug |-> debug])
        /\ loginRet' = "none"
        /\ outcome' = "running" /\ result' = FALSE
        /\ loginCalls' = 0 /\ pc' = "pro_get"

\* create_draft_request(...), lines 188-189.
CreateDraftRequest ==
    \E debug \in BOOLEAN :
        /\ Begin("create_draft_request",
                 [public_body_id |-> PublicBodyId, title |-> Title, body |-> Body,
                  embargo_duration |-> Embargo, debug |-> debug])
        /\ loginRet' = "none"
        /\ outcome' = "running" /\ result' = FALSE
        /\ IF authenticated
           THEN loginCalls' = 0 /\ pc' = "pro_get"
           ELSE loginCalls' = 1 /\ pc' = "login_get"

\* _try_pro_interface, lines 232-270: fetch the Pro form and take its token.
ProGetForm ==
    /\ pc = "pro_get"
    /\ \E r \in ProFormResponses :
        /\ trace' = Append(trace, Get(ProNewUrl))
        /\ resp' = r
        /\ IF r.kind = "neterror"
           THEN /\ ProReturn(Failure("Pro interface error: " \o r.msg))
                /\ UNCHANGED <<token, written>>
           ELSE IF r.status # 200
           THEN /\ ProReturn(Failure("Failed to access Pro interface page: "
                                     \o Str(r.status)))
                /\ UNCHANGED <<token, written>>
           ELSE /\ written' = IF args.debug
                              THEN written \cup {"pro_interface_page.html"}
                              ELSE written
                /\ IF ~r.page.parsed
                   THEN /\ ProReturn(Failure("Pro interface error: " \o ParseErrorMsg))
                        /\ UNCHANGED token
                   ELSE IF TitleSaysNotFound(r.page.elems)
                   THEN /\ ProReturn(Failure("No access to Pro interface"))
                        /\ UNCHANGED token
                   ELSE LET found == FormToken(r.page.elems)
                        IN  IF found = <<>>
                            THEN /\ ProReturn(Failure(
                                      "Could not find authenticity token in Pro interface"))
                                 /\ UNCHANGED token
                            ELSE /\ token' = found[1]
                                 /\ Goto("pro_post")
                                 /\ UNCHANGED pro_result
    /\ UNCHANGED <<authenticated, op, args, loginCalls, loginRet, authAtCall>>

\* _try_pro_interface, lines 285-339: post the draft and look for its id.
ProPostDraft ==
    /\ pc = "pro_post"
    /\ \E r \in ProDraftResponses :
        /\ trace' = Append(trace, Post(ProDraftsUrl, ProDraftData(token)))
        /\ resp' = r
        /\ IF r.kind = "neterror"
           THEN /\ ProReturn(Failure("Pro interface error: " \o r.msg))
                /\ UNCHANGED written
           ELSE /\ written' = IF args.debug
                              THEN written \cup {"pro_draft_response.html"}
                              ELSE written
                /\ ProReturn(ProDraftResult(r))
    /\ UNCHANGED <<authenticated, op, args, token, loginCalls, loginRet, authAtCall>>

\* Lines 365-390: _try_standard_interface reads the form page it got.
StdReadForm(r) ==
    /\ written' = IF args.debug
                  THEN written \cup {"standard_interface_page.html"}
                  ELSE written
    /\ IF ~r.page.parsed
       THEN /\ StdReturn(Failure("Standard interface error: " \o ParseErrorMsg))
            /\ UNCHANGED token
       ELSE LET found == FormToken(r.page.elems)
            IN  IF found = <<>>
                THEN /\ StdReturn(Failure(
                          "Could not find authenticity token in standard interface"))
                     /\ UNCHANGED token
                ELSE token' = found[1] /\ Goto("std_post")

\* _try_standard_interface, lines 354-356: fetch the form for the public body.
StdGetForm ==
    /\ pc = "std_get"
    /\ \E r \in StdFormResponses(StdNewUrl \o "?body=" \o args.public_body_id) :
        /\ trace' = Append(trace, Get(StdNewUrl \o "?body=" \o args.public_body_id))
        /\ resp' = r
        /\ IF r.kind = "neterror"
           THEN /\ StdReturn(Failure("Standard interface error: " \o r.msg))
                /\ UNCHANGED <<token, written>>
           ELSE IF r.status # 200
           THEN Goto("std_get_alt") /\ UNCHANGED <<token, written>>
           ELSE StdReadForm(r)
    /\ UNCHANGED <<authenticated, op, args, pro_result, loginCalls, loginRet,
                   authAtCall>>

\* StdGetFormAlt asking again for the form of the public body after a failure.
StdGetFormAltRetrying ==
    /\ pc = "std_get_alt"
    /\ \E r \in StdFormResponses(StdNewUrl) :
        /\ trace' = Append(trace, Get(StdNewUrl))
        /\ resp' = r
        /\ IF r.kind = "neterror"
           THEN /\ StdReturn(Failure("Standard interface error: " \o r.msg))
                /\ UNCHANGED <<token, written>>
           ELSE IF r.status # 200 /\ Len(trace) < 8
           THEN Goto("std_get") /\ UNCHANGED <<token, written>>
           ELSE IF r.status # 200
           THEN /\ StdReturn(Failure("Failed to access standard interface page: "
                                     \o Str(r.status)))
                /\ UNCHANGED <<token, written>>
           ELSE StdReadForm(r)
    /\ UNCHANGED <<authenticated, op, args, pro_result, loginCalls, loginRet,
                   authAtCall>>

\* _try_standard_interface, lines 358-363: fetch the form without a public body.
StdGetFormAlt ==
    /\ pc = "std_get_alt"
    /\ \E r \in StdFormResponses(StdNewUrl) :
        /\ trace' = Append(trace, Get(StdNewUrl))
        /\ resp' = r
        /\ IF r.kind = "neterror"
           THEN /\ StdReturn(Failure("Standard interface error: " \o r.msg))
                /\ UNCHANGED <<token, written>>
           ELSE IF r.status # 200
           THEN /\ StdReturn(Failure("Failed to access standard interface page: "
                                     \o Str(r.status)))
                /\ UNCHANGED <<token, written>>
           ELSE StdReadForm(r)
    /\ UNCHANGED <<authenticated, op, args, pro_result, loginCalls, loginRet,
                   authAtCall>>

\* _try_standard_interface, lines 405-469: post the draft and look for its id.
StdPostDraft ==
    /\ pc = "std_post"
    /\ \E r \in StdDraftResponses :
        /\ trace' = Append(trace, Post(StdNewUrl, StdDraftData(token)))
        /\ resp' = r
        /\ IF r.kind = "neterror"
           THEN /\ StdReturn(Failure("Standard interface error: " \o r.msg))
                /\ UNCHANGED written
           ELSE /\ written' = IF args.debug
                              THEN written \cup {"standard_draft_response.html"}
                              ELSE written
                /\ StdReturn(StdDraftResult(r))
    /\ UNCHANGED <<authenticated, op, args, token, pro_result, loginCalls, loginRet,
                   authAtCall>>

-----------------------------------------------------------------------------
(* send_request() *)

\* The draft ids send_request is called with.
DraftIds == {"12", "77"}

ProDraftUrl(draft_id) == Domain \o ProInfoRequests \o draft_id
ProSendUrl(draft_id) == ProDraftUrl(draft_id) \o "/send"
PreviewUrl(draft_id) == Domain \o "/preview/" \o draft_id

\* What a draft page or a preview page may hold.
SendFormElems ==
    { Elem("input", [name |-> "authenticity_token", value |-> "a1"], ""),
      Elem("meta", [name |-> "csrf-token", content |-> "m1"], "") }

SendFormPages == Pages(SendFormElems)

SendFormResponses(url) ==
    {NetError} \cup
    {Http(404, url, "", Parsed(<<>>))} \cup
    {Http(200, url, "", p) : p \in SendFormPages}

\* The Location headers the answer to the Pro send POST may carry.
Locations ==
    { NoAttrs,
      [Location |-> Domain \o "/en/request/gas_documents"],
      [Location |-> "/en/request/gas_documents/followups"],
      [Location |-> "/en/request/"],
      [Location |-> "/en/alaveteli_pro/dashboard"] }

ProSendResponses(url) ==
    {NetError} \cup
    {[Http(s, url, "", Parsed(<<>>)) EXCEPT !.headers = h] :
        s \in {200, 302, 500}, h \in Locations}

\* The links the answer to the standard send POST may hold.
RequestLinkElems ==
    { Elem("a", [href |-> "/request/gas_documents/followups"], "Follow up"),
      Elem("a", [href |-> "/request/"], "Requests"),
      Elem("a", [href |-> "/help/about"], "Help") }

\* The URLs the standard send POST may end at, after redirects.
SendFinalUrls(draft_id) ==
    { PreviewUrl(draft_id),
      Domain \o "/request/gas_documents",
      Domain \o "/request/" }

RequestLinkPages == Pages(RequestLinkElems)

StdSendResponses(draft_id) ==
    {NetError} \cup
    {Http(500, PreviewUrl(draft_id), "", Parsed(<<>>))} \cup
    {Http(302, u, "", Parsed(<<>>)) : u \in SendFinalUrls(draft_id)} \cup
    {Http(200, u, "", p) : u \in SendFinalUrls(draft_id), p \in RequestLinkPages}

\* The token of a draft or preview page, lines 500 and 555.
SendToken(doc) == XPathAttrEq(doc, "input", "name", "authenticity_token", "value")

\* The form _send_pro_request posts.
ProSendData(tok) ==
    [utf8 |-> "check", authenticity_token |-> tok, commit |-> "Send request"]

\* The form _send_standard_request posts.
StdSendData(tok) == [authenticity_token |-> tok, submit |-> "1"]

\* ProSendResult building the request URL whether or not an id was found.
ProSendResultAlwaysUrl(r) ==
    IF r.status \in {200, 302}
    THEN LET request_id ==
                 IF "Location" \in DOMAIN r.headers
                    /\ Contains(r.headers.Location, "/request/")
                 THEN Some(Split(Last(Split(r.headers.Location, "/request/")), "/")[1])
                 ELSE None
         IN  [success |-> TRUE,
              request_id |-> request_id,
              request_url |-> Some(Domain \o "/en/request/"
                                   \o (IF request_id = None THEN "None" ELSE request_id[1]))]
    ELSE Failure("Failed to send Pro request. Status code: " \o Str(r.status))

\* Lines 524-545: what _send_pro_request makes of the answer to its POST.
ProSendResult(r) ==
    IF r.status \in {200, 302}
    THEN LET request_id ==
                 IF "Location" \in DOMAIN r.headers
                    /\ Contains(r.headers.Location, "/request/")
                 THEN Some(Split(Last(Split(r.headers.Location, "/request/")), "/")[1])
                 ELSE None
         IN  [success |-> TRUE,
              request_id |-> request_id,
              request_url |-> IF Truthy(request_id)
                              THEN Some(Domain \o "/en/request/" \o request_id[1])
                              ELSE None]
    ELSE Failure("Failed to send Pro request. Status code: " \o Str(r.status))

\* Lines 596-599: the request id of the first link to a request.
LinkRequestId(links) ==
    IF links = <<>> THEN None
    ELSE Some(Split(Last(Split(links[1], "/request/")), "/")[1])

\* Lines 578-612: what _send_standard_request makes of the answer to its POST.
StdSendResult(r) ==
    IF r.status \in {200, 302}
    THEN LET from_url ==
                 IF Contains(r.url, "/request/")
                 THEN Some(Split(Last(Split(r.url, "/request/")), "/")[1])
                 ELSE None
             request_id ==
                 IF Truthy(from_url) THEN from_url
                 ELSE IF ~r.page.parsed THEN from_url
                 ELSE LET links == XPathAttrContains(r.page.elems, "a", "href",
                                                     "/request/", "href")
                      IN  IF links = <<>> THEN from_url ELSE LinkRequestId(links)
         IN  [success |-> TRUE,
              request_id |-> request_id,
              request_url |-> IF Truthy(request_id)
                              THEN Some(Domain \o "/request/" \o request_id[1])
                              ELSE None]
    ELSE Failure("Failed to send standard request. Status code: " \o Str(r.status))

\* send_request(draft_id, is_pro), lines 482-490.
SendRequest ==
    \E draft_id \in DraftIds, is_pro \in BOOLEAN :
        /\ Begin("send_request", [draft_id |-> draft_id, is_pro |-> is_pro])
        /\ loginRet' = "none"
        /\ outcome' = "running" /\ result' = FALSE
        /\ IF authenticated
           THEN loginCalls' = 0
                /\ pc' = FirstStep("send_request", [draft_id |-> draft_id, is_pro |-> is_pro])
           ELSE loginCalls' = 1 /\ pc' = "login_get"

\* Lines 495-502 and 550-557: a send handler reads the page it fetched.
SendReadPage(r, denied, no_token, next) ==
    IF r.kind = "neterror" THEN Raise(r.msg) /\ UNCHANGED token
    ELSE IF r.status # 200
    THEN Return(Failure(denied \o Str(r.status))) /\ UNCHANGED token
    ELSE IF ~r.page.parsed THEN Raise(ParseErrorMsg) /\ UNCHANGED token
    ELSE LET found == SendToken(r.page.elems)
         IN  IF found = <<>> THEN Return(Failure(no_token)) /\ UNCHANGED token
             ELSE token' = found[1] /\ Goto(next)

\* _send_pro_request, lines 495-502: fetch the draft page.
SendProGet ==
    /\ pc = "sendpro_get"
    /\ \E r \in SendFormResponses(ProDraftUrl(args.draft_id)) :
        /\ trace' = Append(trace, Get(ProDraftUrl(args.draft_id)))
        /\ resp' = r
        /\ SendReadPage(r, "Failed to access Pro draft request: ",
                        "Could not find authenticity token", "sendpro_post")
    /\ UNCHANGED <<authenticated, op, args, pro_result, written, loginCalls, loginRet,
                   authAtCall>>

\* _send_pro_request, lines 514-545: post the confirmation.
SendProPost ==
    /\ pc = "sendpro_post"
    /\ \E r \in ProSendResponses(ProSendUrl(args.draft_id)) :
        /\ trace' = Append(trace, Post(ProSendUrl(args.draft_id), ProSendData(token)))
        /\ resp' = r
        /\ IF r.kind = "neterror" THEN Raise(r.msg) ELSE Return(ProSendResult(r))
    /\ UNCHANGED <<authenticated, op, args, token, pro_result, written, loginCalls,
                   loginRet, authAtCall>>

\* _send_standard_request, lines 550-557: fetch the preview page.
SendStdGet ==
    /\ pc = "sendstd_get"
    /\ \E r \in SendFormResponses(PreviewUrl(args.draft_id)) :
        /\ trace' = Append(trace, Get(PreviewUrl(args.draft_id)))
        /\ resp' = r
        /\ SendReadPage(r, "Failed to access standard preview: ",
                        "Could not find authenticity token in preview", "sendstd_post")
    /\ UNCHANGED <<authenticated, op, args, pro_result, written, loginCalls, loginRet,
                   authAtCall>>

\* _send_standard_request, lines 569-612: post the confirmation.
SendStdPost ==
    /\ pc = "sendstd_post"
    /\ \E r \in StdSendResponses(args.draft_id) :
        /\ trace' = Append(trace, Post(PreviewUrl(args.draft_id), StdSendData(token)))
        /\ resp' = r
        /\ IF r.kind = "neterror" THEN Raise(r.msg) ELSE Return(StdSendResult(r))
    /\ UNCHANGED <<authenticated, op, args, token, pro_result, written, loginCalls,
                   loginRet, authAtCall>>

-----------------------------------------------------------------------------
(* list_requests() *)

\* The greatest page number list_requests is called with.
MaxPage == 2

ProListUrl(page) == Domain \o "/en/alaveteli_pro/info_requests?page=" \o Str(page)
ProfileListUrl(page) == Domain \o "/profile/" \o Email \o "/requests?page=" \o Str(page)
UserListUrl(page) ==
    Domain \o "/request/user?user_name=" \o Email \o "&page=" \o Str(page)

\* An element inside an item block: parent is the tag of its parent element.
Child(tag, attrs, text, parent) ==
    [tag |-> tag, attrs |-> attrs, text |-> text, parent |-> parent]

\* A top-level element of a listing page and the elements inside it, in
\* document order.
Block(tag, attrs, text, children) ==
    [tag |-> tag, attrs |-> attrs, text |-> text, children |-> children]

\* What a listing page may hold: item blocks and pagination links.
ListElems ==
    { Block("div", [class |-> "request-list__request"], "",
            << Child("a", [class |-> "request-list__request__title",
                           href |-> "/en/request/gas_documents"], " Gas documents ", "div"),
               Child("span", [class |-> "request-status"], "Awaiting response", "div"),
               Child("time", NoAttrs, "1 May 2025", "div") >>),
      Block("div", [class |-> "request-list__request request-list__request--embargoed"], "",
            << Child("a", [href |-> "/en/request/lng_contracts"], "LNG contracts", "h4") >>),
      Block("div", [class |-> "request_listing"], "",
            << Child("a", [href |-> "http://example.org/help"], "Help", "p"),
               Child("a", [href |-> "request/lng_terminals"], "", "h3") >>),
      Block("div", [class |-> "request-listing"], "",
            << Child("span", [class |-> "date"], "2 May 2025", "div") >>),
      Block("a", [rel |-> "next", href |-> "?page=next"], "Next", <<>>),
      Block("a", [rel |-> "prev", href |-> "?page=prev"], "Previous", <<>>) }

ListPages == Pages(ListElems)

ListResponses(url) ==
    {NetError} \cup
    {Http(404, url, "", Parsed(<<>>))} \cup
    {Http(200, url, "", p) : p \in ListPages}

\* The elements of a listing page in document order, the nested ones included.
RECURSIVE Flatten(_)
Flatten(doc) ==
    IF doc = <<>> THEN <<>>
    ELSE <<[tag |-> doc[1].tag, attrs |-> doc[1].attrs, text |-> doc[1].text]>>
         \o [i \in 1..Len(doc[1].children) |->
                [tag |-> doc[1].children[i].tag,
                 attrs |-> doc[1].children[i].attrs,
                 text |-> doc[1].children[i].text]]
         \o Flatten(Tail(doc))

\* The elements of seq that pass test, in order.
Where(seq, test(_)) == Pick(seq, {i \in 1..Len(seq) : test(seq[i])}, 1)

\* contains(@class, c)
ClassContains(e, c) == HasAttr(e, "class") /\ Contains(e.attrs.class, c)

\* //div[contains(@class, c)]
ItemsOfClass(doc, c) == Where(doc, LAMBDA e : e.tag = "div" /\ ClassContains(e, c))

\* Lines 660-664: the item blocks of a listing page.
RequestItems(doc) ==
    IF ItemsOfClass(doc, "request-list__request") # <<>>
    THEN ItemsOfClass(doc, "request-list__request")
    ELSE IF ItemsOfClass(doc, "request_listing") # <<>>
    THEN ItemsOfClass(doc, "request_listing")
    ELSE ItemsOfClass(doc, "request-listing")

\* The first non-empty sequence of a chain of queries (a or b or ...).
RECURSIVE FirstNonEmpty(_)
FirstNonEmpty(seqs) ==
    IF Len(seqs) = 1 \/ seqs[1] # <<>> THEN seqs[1] ELSE FirstNonEmpty(Tail(seqs))

\* Lines 669-676: the title link of an item.
TitleElem(item) ==
    LET links(c) == Where(item.children, LAMBDA e : e.tag = "a" /\ ClassContains(e, c))
        under(p) == Where(item.children, LAMBDA e : e.tag = "a" /\ e.parent = p)
    IN  FirstNonEmpty(<< links("request-list__request__title"),
                         links("request_listing__title"),
                         links("request-listing__title"),
                         under("h3"),
                         under("h4"),
                         Where(item.children, LAMBDA e : e.tag = "a") >>)

\* Lines 694-698: the status element of an item.
StatusElem(item) ==
    LET of(t) == Where(item.children, LAMBDA e : e.tag = t /\ ClassContains(e, "status"))
    IN  FirstNonEmpty(<<of("span"), of("div"), of("p")>>)

\* Lines 701-705: the date element of an item.
DateElem(item) ==
    LET of(t) == Where(item.children, LAMBDA e : e.tag = t /\ ClassContains(e, "date"))
    IN  FirstNonEmpty(<< Where(item.children, LAMBDA e : e.tag = "time"),
                         of("span"), of("div") >>)

\* s.startswith(p)
StartsWith(s, p) == Len(s) >= Len(p) /\ SubSeq(s, 1, Len(p)) = p

\* s.strip(), for text padded with spaces
RECURSIVE Strip(_)
Strip(s) ==
    IF Len(s) > 0 /\ SubSeq(s, 1, 1) = " " THEN Strip(SubSeq(s, 2, Len(s)))
    ELSE IF Len(s) > 0 /\ SubSeq(s, Len(s), Len(s)) = " "
    THEN Strip(SubSeq(s, 1, Len(s) - 1))
    ELSE s

\* Lines 666-717: the records of an item: one, or none when it has no link.
ItemRecords(item) ==
    LET title_elem == TitleElem(item)
    IN  IF title_elem = <<>> THEN <<>>
        ELSE LET title == IF title_elem[1].text # "" THEN Strip(title_elem[1].text)
                          ELSE "Untitled Request"
                 href == IF HasAttr(title_elem[1], "href")
                         THEN Some(title_elem[1].attrs.href) ELSE None
                 url == IF Truthy(href) /\ ~StartsWith(href[1], "http")
                        THEN (IF StartsWith(href[1], "/") THEN href
                              ELSE Some("/" \o href[1]))
                        ELSE href
                 request_id == IF Truthy(url) /\ Contains(url[1], "/request/")
                               THEN Some(Split(Last(Split(url[1], "/request/")), "/")[1])
                               ELSE None
                 status_elem == StatusElem(item)
                 date_elem == DateElem(item)
             IN  << [id |-> request_id,
                     title |-> title,
                     url |-> IF Truthy(url) /\ ~StartsWith(url[1], "http")
                             THEN Some(Domain \o url[1]) ELSE url,
                     status |-> IF status_elem # <<>> /\ status_elem[1].text # ""
                                THEN Strip(status_elem[1].text) ELSE "Unknown",
                     date |-> IF date_elem # <<>> /\ date_elem[1].text # ""
                              THEN Some(Strip(date_elem[1].text)) ELSE None] >>

\* Records scraping the first item block only.
RecordsFirstOnly(items) ==
    IF items = <<>> THEN <<>> ELSE ItemRecords(items[1])

RECURSIVE Records(_)
Records(items) ==
    IF items = <<>> THEN <<>> ELSE ItemRecords(items[1]) \o Records(Tail(items))

\* ListResult announcing a next page whenever the page listed something.
ListResultByCount(doc, page) ==
    LET prev_page == XPathAttrEq(Flatten(doc), "a", "rel", "prev", "href")
    IN  [success |-> TRUE,
         requests |-> Records(RequestItems(doc)),
         pagination |->
            [current_page |-> page,
             next_page |-> IF Records(RequestItems(doc)) # <<>> THEN Some(page + 1)
                           ELSE None,
             prev_page |-> IF prev_page # <<>> /\ page > 1 THEN Some(page - 1)
                           ELSE None]]

\* Lines 656-731: what list_requests makes of the listing page it got.
ListResult(doc, page) ==
    LET next_page == XPathAttrEq(Flatten(doc), "a", "rel", "next", "href")
        prev_page == XPathAttrEq(Flatten(doc), "a", "rel", "prev", "href")
    IN  [success |-> TRUE,
         requests |-> Records(RequestItems(doc)),
         pagination |->
            [current_page |-> page,
             next_page |-> IF next_page # <<>> THEN Some(page + 1) ELSE None,
             prev_page |-> IF prev_page # <<>> /\ page > 1 THEN Some(page - 1)
                           ELSE None]]

\* list_requests(page), lines 624-625.
ListRequests ==
    \E page \in 1..MaxPage :
        /\ Begin("list_requests", [page |-> page])
        /\ loginRet' = "none"
        /\ outcome' = "running" /\ result' = FALSE
        /\ IF authenticated
           THEN loginCalls' = 0 /\ pc' = "list_get_pro"
           ELSE loginCalls' = 1 /\ pc' = "login_get"

\* ListGet going on to the next listing URL whatever the status.
ListGetEveryUrl(url, next) ==
    /\ \E r \in ListResponses(url) :
        /\ trace' = Append(trace, Get(url))
        /\ resp' = r
        /\ IF r.kind = "neterror" THEN Raise(r.msg)
           ELSE IF next # "idle" THEN Goto(next)
           ELSE IF r.status # 200
           THEN Return(Failure("Failed to list requests: " \o Str(r.status)))
           ELSE IF ~r.page.parsed THEN Raise(ParseErrorMsg)
           ELSE Return(ListResult(r.page.elems, args.page))
    /\ UNCHANGED <<authenticated, op, args, token, pro_result, written, loginCalls,
                   loginRet, authAtCall>>

\* One attempt of lines 634-654 on a listing URL: scrape the page when the status
\* is 200, and otherwise go on to the next URL or, after the last, give up.
ListGet(url, next) ==
    /\ \E r \in ListResponses(url) :
        /\ trace' = Append(trace, Get(url))
        /\ resp' = r
        /\ IF r.kind = "neterror" THEN Raise(r.msg)
           ELSE IF r.status # 200
           THEN (IF next = "idle"
                 THEN Return(Failure("Failed to list requests: " \o Str(r.status)))
                 ELSE Goto(next))
           ELSE IF ~r.page.parsed THEN Raise(ParseErrorMsg)
           ELSE Return(ListResult(r.page.elems, args.page))
    /\ UNCHANGED <<authenticated, op, args, token, pro_result, written, loginCalls,
                   loginRet, authAtCall>>

\* Lines 634-637: the Pro listing.
ListGetPro ==
    pc = "list_get_pro" /\ ListGet(ProListUrl(args.page), "list_get_profile")

\* Lines 641-644: the profile listing.
ListGetProfile ==
    pc = "list_get_profile" /\ ListGet(ProfileListUrl(args.page), "list_get_user")

\* Lines 648-654: the user-name listing.
ListGetUser ==
    pc = "list_get_user" /\ ListGet(UserListUrl(args.page), "idle")

-----------------------------------------------------------------------------

Init ==
    /\ authenticated = FALSE
    /\ pc = "idle"
    /\ op = "none"
    /\ args = [debug |-> FALSE]
    /\ token = NoToken
    /\ pro_result = NoProResult
    /\ trace = <<>>
    /\ resp = NoResponse
    /\ outcome = "none"
    /\ result = FALSE
    /\ written = {}
    /\ loginCalls = 0
    /\ loginRet = "none"
    /\ authAtCall = FALSE

Next ==
    \/ Login
    \/ LoginGetPage
    \/ LoginPost
    \/ CreateDraftRequest
    \/ ProGetForm
    \/ ProPostDraft
    \/ StdGetForm
    \/ StdGetFormAlt
    \/ StdPostDraft
    \/ SendRequest
    \/ SendProGet
    \/ SendProPost
    \/ SendStdGet
    \/ SendStdPost
    \/ ListRequests
    \/ ListGetPro
    \/ ListGetProfile
    \/ ListGetUser

Spec == Init /\ [][Next]_vars

-----------------------------------------------------------------------------
(* Construction, lines 27-49.  A constructor call is a step of its own: it   *)
(* starts from the arguments and the environment of the process, and ends    *)
(* with a client (pc = "idle", result holding the client's fields) or with   *)
(* an exception (pc = "failed").                                             *)

\* What an argument or an environment variable may be: missing, empty or set.
ArgCredentials == {None, Some(""), Some("arg")}
EnvCredentials == {None, Some(""), Some("env")}

\* a or b, for strings and None
PyOr(a, b) == IF Truthy(a) THEN a ELSE b

CredentialsError ==
    [exception |-> "ValueError",
     message |-> "Email and password must be provided or set in environment variables"]

\* Before the call there is no client, so the flag has no defined value.
NewInit ==
    /\ pc = "new"
    /\ op = "__init__"
    /\ args \in [email : ArgCredentials, password : ArgCredentials,
                 ASKTHEEU_EMAIL : EnvCredentials, ASKTHEEU_PASSWORD : EnvCredentials]
    /\ authenticated \in BOOLEAN
    /\ token = NoToken
    /\ pro_result = NoProResult
    /\ trace = <<>>
    /\ resp = NoResponse
    /\ outcome = "running"
    /\ result = FALSE
    /\ written = {}
    /\ loginCalls = 0
    /\ loginRet = "none"
    /\ authAtCall = FALSE

\* AskTheEUClient ignoring the environment.
AskTheEUClientArgumentsOnly ==
    /\ pc = "new"
    /\ IF ~Truthy(args.email) \/ ~Truthy(args.password)
       THEN /\ pc' = "failed"
            /\ outcome' = "raised"
            /\ result' = CredentialsError
            /\ UNCHANGED authenticated
       ELSE /\ pc' = "idle"
            /\ outcome' = "returned"
            /\ result' = [domain |-> Domain, email |-> args.email, password |-> args.password]
            /\ authenticated' = FALSE
    /\ UNCHANGED <<op, args, token, pro_result, trace, resp, written, loginCalls,
                   loginRet, authAtCall>>

\* AskTheEUClient(email, password), lines 41-49.
AskTheEUClient ==
    /\ pc = "new"
    /\ LET email == PyOr(args.email, args.ASKTHEEU_EMAIL)
           password == PyOr(args.password, args.ASKTHEEU_PASSWORD)
       IN  IF ~Truthy(email) \/ ~Truthy(password)
           THEN /\ pc' = "failed"
                /\ outcome' = "raised"
                /\ result' = CredentialsError
                /\ UNCHANGED authenticated
           ELSE /\ pc' = "idle"
                /\ outcome' = "returned"
                /\ result' = [domain |-> Domain, email |-> email, password |-> password]
                /\ authenticated' = FALSE
    /\ UNCHANGED <<op, args, token, pro_result, trace, resp, written, loginCalls,
                   loginRet, authAtCall>>

NewNext == AskTheEUClient

Construction == NewInit /\ [][NewNext]_vars

-----------------------------------------------------------------------------
(* create_foi_request(), lines 734-775: the helper makes a client of its own, *)
(* logs in, and creates the draft, all inside one try.                        *)

\* What request_data may hold under a key: nothing, an empty text, a text.
Texts(t) == {None, Some(""), Some(t)}

HelperInit ==
    /\ pc = "create_foi_request"
    /\ op = "create_foi_request"
    /\ args \in [email : {None, Some(Email)},
                 password : {None, Some(Password)},
                 ASKTHEEU_EMAIL : {None},
                 ASKTHEEU_PASSWORD : {None},
                 public_body_id : {PublicBodyId},
                 request_data : [title : Texts(Title), body : Texts(Body)],
                 embargo_duration : {Embargo},
                 debug : BOOLEAN]
    /\ authenticated = FALSE
    /\ token = NoToken
    /\ pro_result = NoProResult
    /\ trace = <<>>
    /\ resp = NoResponse
    /\ outcome = "running"
    /\ result = FALSE
    /\ written = {}
    /\ loginCalls = 0
    /\ loginRet = "none"
    /\ authAtCall = FALSE

\* Lines 757-759: the client is made and login() is called; the ValueError of
\* the constructor is caught at lines 774-775.
CreateFoiRequest ==
    /\ pc = "create_foi_request"
    /\ LET email == PyOr(args.email, args.ASKTHEEU_EMAIL)
           password == PyOr(args.password, args.ASKTHEEU_PASSWORD)
       IN  IF ~Truthy(email) \/ ~Truthy(password)
           THEN Return(Failure(CredentialsError.message)) /\ UNCHANGED loginCalls
           ELSE Goto("login_get") /\ loginCalls' = 1
    /\ authenticated' = FALSE
    /\ UNCHANGED <<op, args, token, pro_result, trace, resp, written, loginRet,
                   authAtCall>>

HelperNext ==
    \/ CreateFoiRequest
    \/ LoginGetPage
    \/ LoginPost
    \/ ProGetForm
    \/ ProPostDraft
    \/ StdGetForm
    \/ StdGetFormAlt
    \/ StdPostDraft

Helper == HelperInit /\ [][HelperNext]_vars

-----------------------------------------------------------------------------
(* Properties of the client. *)

\* C1: login() on a client whose authenticated flag is already true returns
\* true and issues no request at all, whatever calls came before.
C1_LoginShortCircuit ==
    (op = "login" /\ authAtCall) =>
        /\ pc = "idle"
        /\ outcome = "returned"
        /\ trace = <<>>
        /\ result = TRUE

C1_Witness ==
    op = "login" /\ authAtCall /\ outcome = "returned" /\ trace = <<>>

\* C2: when the sign-in page that was fetched holds neither an input with id
\* signin_token nor an input named authenticity_token (a body with no document
\* in it holds neither), login() returns false, no POST is issued, and the
\* authenticated flag stays false.
C2_NeitherInputMeansFalse ==
    ( /\ Len(trace) > 0
      /\ Last(trace) = Get(SignInUrl)
      /\ resp.kind = "http"
      /\ IF resp.page.parsed
         THEN \A i \in 1..Len(resp.page.elems) :
                 LET e == resp.page.elems[i]
                 IN  ~ /\ e.tag = "input"
                       /\ \/ "id" \in DOMAIN e.attrs /\ e.attrs.id = "signin_token"
                          \/ "name" \in DOMAIN e.attrs /\ e.attrs.name = "authenticity_token"
         ELSE TRUE )
    =>
        /\ pc = "idle"
        /\ ~authenticated
        /\ \A i \in 1..Len(trace) : trace[i].method # "POST"
        /\ loginRet = "false"
        /\ outcome = "returned"
        /\ op = "login" => result = FALSE

\* C2, for the sign-in pages that parse: when such a page holds neither input,
\* login() returns false, no POST is issued, and the authenticated flag stays
\* false.
C2_NoTokenNoPost ==
    ( /\ Len(trace) > 0
      /\ Last(trace) = Get(SignInUrl)
      /\ resp.kind = "http"
      /\ resp.page.parsed
      /\ \A i \in 1..Len(resp.page.elems) :
            LET e == resp.page.elems[i]
            IN  ~ /\ e.tag = "input"
                  /\ \/ "id" \in DOMAIN e.attrs /\ e.attrs.id = "signin_token"
                     \/ "name" \in DOMAIN e.attrs /\ e.attrs.name = "authenticity_token" )
    =>
        /\ pc = "idle"
        /\ loginRet = "false"
        /\ ~authenticated
        /\ \A i \in 1..Len(trace) : trace[i].method # "POST"
        /\ outcome = "returned"
        /\ op = "login" => result = FALSE

C2_Witness ==
    /\ op = "login"
    /\ outcome = "returned"
    /\ loginRet = "false"
    /\ trace = <<Get(SignInUrl)>>
    /\ resp.kind = "http"
    /\ resp.page.parsed
    /\ Len(resp.page.elems) > 0
    /\ \A i \in 1..Len(resp.page.elems) :
          resp.page.elems[i].attrs = [name |-> "user_signin[email]", value |-> "x"]

\* C3: the token in the body of login()'s POST is the first value, in document
\* order, of the inputs with id signin_token when the sign-in page has one, and
\* otherwise the first value of the inputs named authenticity_token.
C3_PostedToken ==
    [][ (pc = "login_post" /\ pc' # "login_post") =>
            LET doc == resp.page.elems
                values(a, v) ==
                    {i \in 1..Len(doc) :
                        /\ doc[i].tag = "input"
                        /\ a \in DOMAIN doc[i].attrs /\ doc[i].attrs[a] = v
                        /\ "value" \in DOMAIN doc[i].attrs}
                first(S) == CHOOSE i \in S : \A j \in S : i <= j
                primary == values("id", "signin_token")
                fallback == values("name", "authenticity_token")
                sent == trace'[Len(trace')]
            IN  /\ Len(trace') = Len(trace) + 1
                /\ sent.method = "POST"
                /\ sent.url = SignInUrl
                /\ primary \cup fallback # {}
                /\ sent.data.token =
                      IF primary # {} THEN doc[first(primary)].attrs.value
                      ELSE doc[first(fallback)].attrs.value ]_vars

C3_Witness ==
    /\ op = "login"
    /\ Len(trace) = 2
    /\ trace[2].method = "POST"
    /\ trace[2].data.token = "s2"

\* C4: the authenticated flag has two values and one transition: once true it
\* is never false again, and it turns true only inside login(), on the answer
\* to login()'s POST.
C4_OneWayAuthentication ==
    [][ /\ authenticated \in BOOLEAN
        /\ authenticated => authenticated'
        /\ authenticated' # authenticated =>
              /\ pc = "login_post"
              /\ loginCalls = 1
              /\ loginRet' = "true" ]_vars

C4_Witness ==
    /\ authenticated
    /\ authAtCall
    /\ op = "create_draft_request"
    /\ outcome = "returned"
    /\ ~result.success

\* C5: an operation that needs a session and is called on an unauthenticated
\* client enters login() exactly once; when that login() returns false the
\* operation returns {success: False, error: "Not authenticated"}; and as long
\* as the flag is false the call has requested nothing but the sign-in URL.
C5_AuthenticateFirst ==
    op \in {"create_draft_request", "send_request", "list_requests"} =>
        /\ loginCalls = IF authAtCall THEN 0 ELSE 1
        /\ loginRet = "false" =>
              /\ pc = "idle"
              /\ outcome = "returned"
              /\ result = NotAuthenticated
        /\ ~authenticated => \A i \in 1..Len(trace) : trace[i].url = SignInUrl

C5_Witness ==
    /\ op = "send_request"
    /\ loginRet = "false"
    /\ outcome = "returned"
    /\ Len(trace) = 2

\* C6: a page that cannot be parsed makes every public operation return a
\* failure; the parse exception never escapes the call.
C6_ParseFailureContained ==
    ~(pc = "idle" /\ outcome = "raised" /\ result = ParseErrorMsg)

\* C7: whenever the Pro form page is missing or has no token (its status is not
\* 200, its title says it was not found, or it holds no token),
\* create_draft_request goes on to the standard interface.
C7_MissingPageOrTokenFallsBack ==
    ( /\ Len(trace) > 0
      /\ Last(trace) = Get(ProNewUrl)
      /\ resp.kind = "http"
      /\ \/ resp.status # 200
         \/ /\ resp.page.parsed
            /\ \/ \E i \in 1..Len(resp.page.elems) :
                     /\ resp.page.elems[i].tag = "title"
                     /\ resp.page.elems[i].text = "Page Not Found"
                     /\ \A j \in 1..(i - 1) : resp.page.elems[j].tag # "title"
               \/ FormToken(resp.page.elems) = <<>> )
    => pc = "std_get"

\* C8: when the Pro form page answers 404 and the standard interface succeeds,
\* create_draft_request returns the standard interface's success, tagged
\* standard_interface, with the draft id and URL that interface recovered:
\* the part of the final URL after /preview/ up to a "?", and failing that the
\* part of the preview form's action after /preview/.
C8_StandardSuccessReturned ==
    LET after(s, mark) ==
            LET at == {i \in 1..(Len(s) - Len(mark) + 1) :
                          SubSeq(s, i, i + Len(mark) - 1) = mark}
                last == CHOOSE i \in at : \A j \in at : j <= i
            IN  SubSeq(s, last + Len(mark), Len(s))
        upto(s, c) ==
            LET at == {i \in 1..Len(s) : SubSeq(s, i, i) = c}
            IN  IF at = {} THEN s
                ELSE SubSeq(s, 1, (CHOOSE i \in at : \A j \in at : i <= j) - 1)
        has(s, mark) ==
            \E i \in 1..(Len(s) - Len(mark) + 1) : SubSeq(s, i, i + Len(mark) - 1) = mark
        from_url == IF has(resp.url, "/preview/")
                    THEN upto(after(resp.url, "/preview/"), "?") ELSE ""
        forms == {i \in 1..Len(resp.page.elems) :
                     /\ resp.page.elems[i].tag = "form"
                     /\ resp.page.elems[i].attrs.id = "preview_form"}
        action == resp.page.elems[CHOOSE i \in forms : \A j \in forms : i <= j].attrs.action
    IN  ( /\ op = "create_draft_request"
          /\ pro_result = Failure("Failed to access Pro interface page: 404")
          /\ Len(trace) > 0
          /\ Last(trace).method = "POST"
          /\ Last(trace).url = StdNewUrl
          /\ resp.kind = "http"
          /\ resp.status \in {200, 302}
          /\ \/ from_url # ""
             \/ resp.page.parsed /\ forms # {} /\ has(action, "/preview/") )
        =>
            /\ pc = "idle"
            /\ outcome = "returned"
            /\ LET draft_id == IF from_url # "" THEN from_url
                               ELSE after(action, "/preview/")
               IN  result = [success |-> TRUE,
                             method |-> "standard_interface",
                             draft_id |-> draft_id,
                             draft_url |-> Domain \o "/preview/" \o draft_id]

C8_Witness ==
    /\ op = "create_draft_request"
    /\ outcome = "returned"
    /\ pro_result = Failure("Failed to access Pro interface page: 404")
    /\ result.success
    /\ result.method = "standard_interface"
    /\ result.draft_id = "88"
    /\ result.draft_url = "https://www.asktheeu.org/preview/88"

\* C9: a failure that create_draft_request returns on an authenticated session
\* is the Pro interface's failure, both when the standard interface was not
\* tried and when it was tried and failed too; the standard interface's error
\* is never returned.
C9_ProFailureReturned ==
    ( /\ op = "create_draft_request"
      /\ pc = "idle"
      /\ outcome = "returned"
      /\ authenticated
      /\ ~result.success )
    =>
        /\ result = pro_result
        /\ \A i \in 1..(Len(result.error) - 7) :
              SubSeq(result.error, i, i + 7) \notin {"standard", "Standard"}
        /\ \E i \in 1..(Len(result.error) - 2) : SubSeq(result.error, i, i + 2) = "Pro"

C9_Witness ==
    /\ op = "create_draft_request"
    /\ outcome = "returned"
    /\ authenticated
    /\ ~result.success
    /\ Last(trace).method = "POST"
    /\ Last(trace).url = StdNewUrl
    /\ resp.kind = "http"

\* C10: when the Pro draft POST answers 200, the draft id returned is the
\* trailing path segment of the first link, in document order, whose href
\* contains /en/alaveteli_pro/info_requests/ and whose trailing segment is all
\* digits; other links are skipped, and with no such link the Pro interface
\* fails.
C10_FirstNumericLink ==
    LET doc == resp.page.elems
        trailing(h) ==
            LET at == {i \in 1..Len(h) : SubSeq(h, i, i) = "/"}
            IN  IF at = {} THEN h
                ELSE SubSeq(h, (CHOOSE i \in at : \A j \in at : j <= i) + 1, Len(h))
        numeric(t) ==
            /\ t # ""
            /\ \A i \in 1..Len(t) :
                  SubSeq(t, i, i) \in {"0", "1", "2", "3", "4", "5", "6", "7", "8", "9"}
        hits == {i \in 1..Len(doc) :
                    /\ doc[i].tag = "a"
                    /\ "href" \in DOMAIN doc[i].attrs
                    /\ \E k \in 1..(Len(doc[i].attrs.href) - 31) :
                          SubSeq(doc[i].attrs.href, k, k + 31)
                              = "/en/alaveteli_pro/info_requests/"
                    /\ numeric(trailing(doc[i].attrs.href))}
    IN  ( /\ op = "create_draft_request"
          /\ Len(trace) > 0
          /\ Last(trace).method = "POST"
          /\ Last(trace).url = ProDraftsUrl
          /\ resp.kind = "http"
          /\ resp.status = 200 )
        =>
            /\ pc = "idle"
            /\ outcome = "returned"
            /\ IF resp.page.parsed /\ hits # {}
               THEN LET draft_id ==
                            trailing(doc[CHOOSE i \in hits : \A j \in hits : i <= j].attrs.href)
                    IN  result = [success |-> TRUE,
                                  method |-> "pro_interface",
                                  draft_id |-> draft_id,
                                  draft_url |-> Domain \o "/en/alaveteli_pro/info_requests/"
                                                \o draft_id]
               ELSE ~result.success /\ result = pro_result

C10_Witness ==
    /\ op = "create_draft_request"
    /\ outcome = "returned"
    /\ result.success
    /\ result.method = "pro_interface"
    /\ result.draft_id = "7"
    /\ Len(resp.page.elems) = 2
    /\ resp.page.elems[1].attrs.href = "/en/alaveteli_pro/info_requests/new"

\* C11: every successful result of create_draft_request carries a non-empty
\* draft_id and the draft_url built from it, on the Pro path and on the
\* standard path, the recovery from the preview form's action included.
C11_DraftIdNeverEmpty ==
    ( /\ op = "create_draft_request"
      /\ outcome = "returned"
      /\ result.success )
    =>
        /\ result.draft_id # ""
        /\ result.draft_url =
              IF result.method = "pro_interface"
              THEN Domain \o "/en/alaveteli_pro/info_requests/" \o result.draft_id
              ELSE Domain \o "/preview/" \o result.draft_id

C13_SendDispatch ==
    op = "send_request" =>
        LET pro_draft == "https://www.asktheeu.org/en/alaveteli_pro/info_requests/"
                            \o args.draft_id
            allowed == IF args.is_pro
                       THEN {[method |-> "GET", url |-> pro_draft],
                             [method |-> "POST", url |-> pro_draft \o "/send"]}
                       ELSE {[method |-> "GET",
                              url |-> "https://www.asktheeu.org/preview/" \o args.draft_id],
                             [method |-> "POST",
                              url |-> "https://www.asktheeu.org/preview/" \o args.draft_id]}
        IN  \A i \in 1..Len(trace) :
               \/ [method |-> trace[i].method, url |-> trace[i].url] \in allowed
               \/ ~authAtCall /\ i <= 2 /\ trace[i].url = SignInUrl

C13_Witness ==
    /\ op = "send_request"
    /\ authAtCall
    /\ ~args.is_pro
    /\ outcome = "returned"
    /\ Len(trace) = 2
    /\ trace[2].method = "POST"

\* C14: list_requests tries the Pro listing, the profile listing and the
\* user-name listing in that order; it asks for the next one only after the
\* one before answered with a status other than 200, stops at the first 200
\* and scrapes that answer, and returns a failure of its own only when the
\* third one too answered with a status other than 200.
C14_ListingOrder ==
    [][ op' = "list_requests" =>
          LET page == CASE args'.page = 1 -> "1" [] args'.page = 2 -> "2"
                        [] args'.page = 3 -> "3" [] OTHER -> "?"
              urls == << "https://www.asktheeu.org/en/alaveteli_pro/info_requests?page="
                            \o page,
                         "https://www.asktheeu.org/profile/user@example.org/requests?page="
                            \o page,
                         "https://www.asktheeu.org/request/user?user_name=user@example.org&page="
                            \o page >>
              n == Len(trace')
              listing(i) == trace'[i].url # SignInUrl
          IN  /\ \A i \in 1..n :
                    listing(i) =>
                       \E k \in 1..3 :
                          /\ trace'[i] = [method |-> "GET", url |-> urls[k]]
                          /\ IF k = 1 THEN i = 1 \/ ~listing(i - 1)
                             ELSE i > 1 /\ trace'[i - 1].url = urls[k - 1]
              /\ (n > Len(trace) /\ n > 1 /\ listing(n) /\ listing(n - 1)) =>
                    resp.kind = "http" /\ resp.status # 200
              /\ (n > 0 /\ listing(n) /\ resp'.kind = "http" /\ resp'.status = 200) =>
                    /\ pc' = "idle"
                    /\ outcome' = "returned" => result'.success
                    /\ resp'.page.parsed =>
                          /\ outcome' = "returned"
                          /\ result'.pagination.current_page = args'.page
              /\ (outcome' = "returned" /\ ~result'.success /\ authenticated') =>
                    /\ trace'[n].url = urls[3]
                    /\ resp'.kind = "http" /\ resp'.status # 200 ]_vars

C14_Witness ==
    /\ op = "list_requests"
    /\ authAtCall
    /\ Len(trace) = 3
    /\ outcome = "returned"
    /\ result.success

\* C15: a successful list_requests(p) reports current_page = p, and next_page
\* = p + 1 exactly when the page it scraped holds a link (an a element with an
\* href) marked rel="next", and null otherwise, however many records it
\* scraped.
C15_NextPageFromLink ==
    (op = "list_requests" /\ outcome = "returned" /\ result.success) =>
        LET doc == resp.page.elems
            marked(e) ==
                /\ e.tag = "a"
                /\ "rel" \in DOMAIN e.attrs /\ e.attrs.rel = "next"
                /\ "href" \in DOMAIN e.attrs
            has_next ==
                \E i \in 1..Len(doc) :
                    \/ marked(doc[i])
                    \/ \E j \in 1..Len(doc[i].children) : marked(doc[i].children[j])
        IN  /\ result.pagination.current_page = args.page
            /\ result.pagination.next_page =
                  IF has_next THEN <<args.page + 1>> ELSE <<>>

C15_Witness ==
    /\ op = "list_requests"
    /\ outcome = "returned"
    /\ result.success
    /\ args.page = 2
    /\ result.pagination.next_page = <<3>>
    /\ result.requests = <<>>

\* C16 as stated: a successful list_requests returns as many records as the
\* first container selector that matches anything matched item blocks.
C16_RecordPerBlock ==
    (op = "list_requests" /\ outcome = "returned" /\ result.success) =>
        LET doc == resp.page.elems
            matched(c) == {i \in 1..Len(doc) :
                              /\ doc[i].tag = "div"
                              /\ "class" \in DOMAIN doc[i].attrs
                              /\ Contains(doc[i].attrs.class, c)}
            blocks == IF matched("request-list__request") # {}
                      THEN matched("request-list__request")
                      ELSE IF matched("request_listing") # {}
                      THEN matched("request_listing")
                      ELSE matched("request-listing")
        IN  Len(result.requests) = Cardinality(blocks)

\* C16, amended: a successful list_requests returns, in document order, one
\* record per item block that holds at least one link, the item blocks being
\* those matched by the first container selector that matches anything; an
\* item block without a link gives no record.
C16_RecordPerLinkedBlock ==
    (op = "list_requests" /\ outcome = "returned" /\ result.success) =>
        LET doc == resp.page.elems
            matched(c) == {i \in 1..Len(doc) :
                              /\ doc[i].tag = "div"
                              /\ "class" \in DOMAIN doc[i].attrs
                              /\ Contains(doc[i].attrs.class, c)}
            blocks == IF matched("request-list__request") # {}
                      THEN matched("request-list__request")
                      ELSE IF matched("request_listing") # {}
                      THEN matched("request_listing")
                      ELSE matched("request-listing")
            links(i) == {j \in 1..Len(doc[i].children) : doc[i].children[j].tag = "a"}
            linked == {i \in blocks : links(i) # {}}
            nth(k) == CHOOSE i \in linked : Cardinality({x \in linked : x <= i}) = k
            ends(s, t) == Len(s) >= Len(t) /\ SubSeq(s, Len(s) - Len(t) + 1, Len(s)) = t
        IN  /\ Len(result.requests) = Cardinality(linked)
            /\ \A k \in 1..Len(result.requests) :
                  \E j \in links(nth(k)) :
                     /\ result.requests[k].url # None
                     /\ ends(result.requests[k].url[1], doc[nth(k)].children[j].attrs.href)

C16_Witness ==
    /\ op = "list_requests"
    /\ outcome = "returned"
    /\ result.success
    /\ Len(resp.page.elems) = 2
    /\ Len(result.requests) = 2
    /\ result.requests[1].title = "LNG contracts"
    /\ result.requests[2].title = "Gas documents"

\* C17 as stated: construction resolves each credential from the argument and
\* otherwise from the environment, fails with ConfigurationError exactly when
\* the resolved email or password is absent, and otherwise gives a client with
\* the authenticated flag false that has issued no request.
C17_ConfigurationError ==
    pc # "new" =>
        LET absent(x) == x = <<>> \/ x = <<"">>
            resolved(a, e) == IF absent(a) THEN e ELSE a
            email == resolved(args.email, args.ASKTHEEU_EMAIL)
            password == resolved(args.password, args.ASKTHEEU_PASSWORD)
        IN  IF absent(email) \/ absent(password)
            THEN outcome = "raised" /\ result.exception = "ConfigurationError"
            ELSE /\ outcome = "returned"
                 /\ result.email = email /\ result.password = password
                 /\ ~authenticated
                 /\ trace = <<>>

\* C17, amended: the same, the exception being a ValueError.
C17_ValueError ==
    pc # "new" =>
        LET absent(x) == x = <<>> \/ x = <<"">>
            resolved(a, e) == IF absent(a) THEN e ELSE a
            email == resolved(args.email, args.ASKTHEEU_EMAIL)
            password == resolved(args.password, args.ASKTHEEU_PASSWORD)
        IN  IF absent(email) \/ absent(password)
            THEN /\ pc = "failed"
                 /\ outcome = "raised"
                 /\ result.exception = "ValueError"
            ELSE /\ pc = "idle"
                 /\ outcome = "returned"
                 /\ result.email = email /\ result.password = password
                 /\ ~authenticated
                 /\ trace = <<>>

C17_Witness ==
    /\ pc = "idle"
    /\ outcome = "returned"
    /\ args.email = <<>>
    /\ args.password = <<"arg">>
    /\ result.email = <<"env">>
    /\ result.password = <<"arg">>
    /\ ~authenticated

\* C18 as stated: when login() has issued its POST, its return value equals
\* the authenticated flag, and it is true exactly when the body of the answer
\* holds a sign-out substring ("Sign out", "sign_out", "logout" in any case) or
\* the dashboard path, or the final URL is not the sign-in URL.
C18_ThreeIndicators ==
    ( /\ Len(trace) > 0
      /\ trace[Len(trace)].method = "POST"
      /\ trace[Len(trace)].url = SignInUrl
      /\ resp.kind = "http" )
    =>
        LET has(s, t) == \E i \in 1..(Len(s) - Len(t) + 1) : SubSeq(s, i, i + Len(t) - 1) = t
            indicated ==
                \/ has(resp.text, "Sign out")
                \/ has(resp.text, "sign_out")
                \/ has(Lower(resp.text), "logout")
                \/ has(resp.text, "alaveteli_pro/dashboard")
                \/ resp.url # "https://www.asktheeu.org/profile/sign_in"
        IN  /\ authenticated = indicated
            /\ loginRet = IF indicated THEN "true" ELSE "false"
            /\ op = "login" => (outcome = "returned" /\ result = indicated)

\* C18, amended: the same with one more indicator, the substring
\* "Your profile" in the body.
C18_SuccessIndicators ==
    ( /\ Len(trace) > 0
      /\ trace[Len(trace)].method = "POST"
      /\ trace[Len(trace)].url = SignInUrl
      /\ resp.kind = "http" )
    =>
        LET has(s, t) == \E i \in 1..(Len(s) - Len(t) + 1) : SubSeq(s, i, i + Len(t) - 1) = t
            indicated ==
                \/ has(resp.text, "Sign out")
                \/ has(resp.text, "sign_out")
                \/ has(resp.text, "Your profile")
                \/ has(Lower(resp.text), "logout")
                \/ has(resp.text, "alaveteli_pro/dashboard")
                \/ resp.url # "https://www.asktheeu.org/profile/sign_in"
        IN  /\ authenticated = indicated
            /\ loginRet = IF indicated THEN "true" ELSE "false"
            /\ op = "login" => (outcome = "returned" /\ result = indicated)

C18_Witness ==
    /\ op = "login"
    /\ outcome = "returned"
    /\ Len(trace) = 2
    /\ trace[2].method = "POST"
    /\ resp.kind = "http"
    /\ resp.url = SignInUrl
    /\ resp.text = "<h1>Your profile</h1>"
    /\ authenticated
    /\ result = TRUE

\* C19: a call writes files only when its debug flag is set (send_request and
\* list_requests have none, and log in without it); and login(debug=True)
\* writes its response dump, and nothing else, only when the login failed.
C19_DebugFilesOnly ==
    LET debug == op \in {"login", "create_draft_request"} /\ args.debug
    IN  /\ ~debug => written = {}
        /\ written \subseteq {"login_response.html", "pro_interface_page.html",
                              "pro_draft_response.html", "standard_interface_page.html",
                              "standard_draft_response.html"}
        /\ "login_response.html" \in written =>
              /\ loginRet = "false"
              /\ ~authenticated
              /\ written = {"login_response.html"}
        /\ (op = "login" /\ written # {}) =>
              /\ outcome = "returned"
              /\ result = FALSE

C19_Witness ==
    /\ op = "login"
    /\ args.debug
    /\ outcome = "returned"
    /\ written = {"login_response.html"}
    /\ ~authenticated

\* C20: nothing is retried.  Within one call no (method, URL) pair is requested
\* twice and login() is entered at most once, so a call issues at most 2
\* requests under login, 4 under send_request, 5 under list_requests and 7
\* under create_draft_request; and every step of a running call issues exactly
\* one of these requests, so the call ends after at most that many steps.
C20_NoRetry ==
    [][ LET n == Len(trace')
            most == CASE op' = "login" -> 2
                      [] op' = "send_request" -> 4
                      [] op' = "list_requests" -> 5
                      [] op' = "create_draft_request" -> 7
                      [] OTHER -> 0
        IN  /\ loginCalls' <= 1
            /\ \A i \in 1..n : \A j \in (i + 1)..n :
                  trace'[i].method # trace'[j].method \/ trace'[i].url # trace'[j].url
            /\ n <= most
            /\ IF pc = "idle" THEN n = 0 ELSE n = Len(trace) + 1 ]_vars

C20_Witness ==
    /\ op = "create_draft_request"
    /\ pc = "idle"
    /\ outcome = "returned"
    /\ loginCalls = 1
    /\ Len(trace) = 6

C22_PostOnlyWithToken ==
    [][ op' = "send_request" =>
          LET n == Len(trace')
              tokens(r) ==
                  IF r.page.parsed
                  THEN {i \in 1..Len(r.page.elems) :
                           /\ r.page.elems[i].tag = "input"
                           /\ "name" \in DOMAIN r.page.elems[i].attrs
                           /\ r.page.elems[i].attrs.name = "authenticity_token"
                           /\ "value" \in DOMAIN r.page.elems[i].attrs}
                  ELSE {}
          IN  /\ (n > Len(trace) /\ trace'[n].method = "POST" /\ trace'[n].url # SignInUrl) =>
                    /\ trace[n - 1].method = "GET"
                    /\ trace[n - 1].url # SignInUrl
                    /\ resp.kind = "http" /\ resp.status = 200
                    /\ tokens(resp) # {}
                    /\ trace'[n].data.authenticity_token =
                          resp.page.elems[CHOOSE i \in tokens(resp) :
                                             \A j \in tokens(resp) : i <= j].attrs.value
              /\ ( /\ n > Len(trace)
                   /\ trace'[n].method = "GET" /\ trace'[n].url # SignInUrl
                   /\ resp'.kind = "http"
                   /\ resp'.status # 200 \/ tokens(resp') = {} ) =>
                    /\ pc' = "idle"
                    /\ outcome' = "returned"
                    /\ ~result'.success
                    /\ result'.error # "" ]_vars

\* C23 as stated: create_foi_request never raises; missing credentials, a
\* failed login and any exception become a failure result; and whenever
\* request_data lacks a title or a body the result is the error "Title and
\* body are required" and no draft-creation request is issued.
C23_TitleAndBodyRequired ==
    LET lacks(x) == x = <<>> \/ x = <<"">>
    IN  /\ outcome # "raised"
        /\ (pc = "idle" /\ (lacks(args.request_data.title) \/ lacks(args.request_data.body))) =>
              /\ outcome = "returned"
              /\ result = [success |-> FALSE, error |-> "Title and body are required"]
              /\ \A i \in 1..Len(trace) : trace[i].url = SignInUrl

\* C23, amended: create_foi_request never raises; missing credentials give the
\* constructor's message as a failure, a login that returns false gives "Login
\* failed", an exception gives its message as a failure; and when request_data
\* lacks a title or a body no draft-creation request is issued, the result
\* being "Title and body are required" once the client was made and the login
\* succeeded, and the failure of the construction or of the login before that.
C23_HelperNeverRaises ==
    LET lacks(x) == x = <<>> \/ x = <<"">>
        failure(e) == [success |-> FALSE, error |-> e]
    IN  /\ outcome # "raised"
        /\ pc = "idle" =>
              /\ outcome = "returned"
              /\ IF lacks(args.email) \/ lacks(args.password)
                 THEN /\ trace = <<>>
                      /\ result = failure("Email and password must be provided or set in environment variables")
                 ELSE /\ loginRet # "none"
                      /\ loginRet = "false" => result = failure("Login failed")
                      /\ loginRet = "raised" =>
                            /\ resp.kind = "neterror" => result = failure(resp.msg)
                            /\ resp.kind = "http" =>
                                  result = failure("Document is empty")
                      /\ (loginRet = "true"
                          /\ (lacks(args.request_data.title) \/ lacks(args.request_data.body))) =>
                            result = failure("Title and body are required")
        /\ (lacks(args.request_data.title) \/ lacks(args.request_data.body)) =>
              \A i \in 1..Len(trace) : trace[i].url = SignInUrl

C23_Witness ==
    /\ op = "create_foi_request"
    /\ pc = "idle"
    /\ args.request_data.title = <<"">>
    /\ args.request_data.body # <<>>
    /\ loginRet = "true"
    /\ authenticated
    /\ Len(trace) = 2
    /\ result = [success |-> FALSE, error |-> "Title and body are required"]

=============================================================================
